---- MODULE Spec2Model ----
(***************************************************************************)
(* LinuxRouter (server/site_linux_router.py): the lifecycle of hostapd AP  *)
(* instances, station instances and local (DHCP) servers of one router     *)
(* session.  Every public operation is single-threaded and synchronous;    *)
(* pc is the position of the one caller inside the operation in progress.  *)
(* Time is counted in ticks of STARTUP_POLLING_INTERVAL_SECONDS (0.5 s).   *)
(***************************************************************************)
EXTENDS Integers, Sequences, FiniteSets, TLC

\* ------------------------------------------------------------------ bounds
NumInterfaces == 2      \* wireless interfaces the allocator can hand out
MaxTeardowns == 2       \* cap on _total_hostapd_instances
PoolHeadroom == 4       \* how far below the limit the local server pool starts
MaxPrefixChars == 27    \* longest test name kept in ssid_prefix, before its "_"
MaxSuffixLen == 33      \* longest ssid_suffix a caller passes

\* ------------------------------------------------------- program constants
STARTUP_TIMEOUT_SECONDS == 10
TicksPerSecond == 2
StartupPollingIntervalTicks == 1
MaxLocalServers == 256
SsidMaxLen == 32
SaltLen == 5
DhcpLow == 1
DhcpHigh == 128
ServerHostOctet == 254
PeerHostOctet == 253
PrefixLen == 24

StartupTimeoutTicks == STARTUP_TIMEOUT_SECONDS * TicksPerSecond
SUBNET_PREFIX_OCTETS == <<192, 168>>

Interfaces == 1..NumInterfaces
None == -1              \* Python None, for an argument or an interface name

\* ----------------------------------------------------------------- inputs
SUFFIX_LETTERS == {"a"}
Salts == {[k \in 1..SaltLen |-> c] : c \in SUFFIX_LETTERS}
ssid_prefix == <<"t", "_">>
Frequencies == {2412}
Configurations == {[frequency |-> f, ssid_suffix |-> <<"x">>] : f \in Frequencies}
MultiInterfaceArgs == {"None", "True", "False"}
Pids == {1001}          \* what `cat pid_file` can print

\* ------------------------------------------------------------ pure helpers
Min(S) == CHOOSE x \in S : \A y \in S : x <= y

RemoveAt(s, k) == SubSeq(s, 1, k - 1) \o SubSeq(s, k + 1, Len(s))

\* mutant: [:32] for [-32:]
Rightmost_Leftmost(s, n) == IF Len(s) <= n THEN s ELSE SubSeq(s, 1, n)

\* s[-n:]
Rightmost(s, n) == IF Len(s) <= n THEN s ELSE SubSeq(s, Len(s) - n + 1, Len(s))

\* _build_ssid
BuildSsidWith(prefix, salt, suffix) == Rightmost(prefix \o salt \o suffix, SsidMaxLen)

\* _build_ssid(suffix) on this router, whose ssid_prefix is fixed
BuildSsid(salt, suffix) == BuildSsidWith(ssid_prefix, salt, suffix)

\* remote file names, templated by interface name
HOSTAPD_CONF_FILE(i) == [pattern |-> "/tmp/hostapd-test-%s.conf", iface |-> i]
HOSTAPD_LOG_FILE(i) == [pattern |-> "/tmp/hostapd-test-%s.log", iface |-> i]
HOSTAPD_PID_FILE(i) == [pattern |-> "/tmp/hostapd-test-%s.pid", iface |-> i]
HOSTAPD_CONTROL_INTERFACE(i) == [pattern |-> "/tmp/hostapd-test-%s.ctrl", iface |-> i]

\* HostapConfig.get_channel_for_frequency, for the frequencies used here
ChannelForFrequency(f) == IF f = 2412 THEN 1 ELSE 0

\* HostapConfig.generate_dict: the parameter mapping written to the conf file
GenerateDict(configuration, interface, control_interface, ssid) ==
    [interface |-> interface, ctrl_interface |-> control_interface,
     ssid |-> ssid, channel |-> ChannelForFrequency(configuration.frequency)]

\* local_server_address
LocalServerAddress(index) == SUBNET_PREFIX_OCTETS \o <<index, ServerHostOctet>>

\* local_peer_ip_address
LocalPeerIpAddress(index) == SUBNET_PREFIX_OCTETS \o <<index, PeerHostOctet>>

\* netblock.Netblock, for /24 blocks
NetblockFromAddr(addr, prefix_len) == [addr |-> addr, prefix_len |-> prefix_len]
Subnet(nb) == <<nb.addr[1], nb.addr[2], nb.addr[3], 0>>
Broadcast(nb) == <<nb.addr[1], nb.addr[2], nb.addr[3], 255>>
GetAddrInBlock(nb, offset) == <<nb.addr[1], nb.addr[2], nb.addr[3], offset>>

\* the params dict start_local_server builds
LocalServerParams(index, interface) ==
    LET server_addr == NetblockFromAddr(LocalServerAddress(index), PrefixLen)
    IN [netblock |-> server_addr,
        dhcp_range |-> <<GetAddrInBlock(server_addr, DhcpLow),
                         GetAddrInBlock(server_addr, DhcpHigh)>>,
        interface |-> interface,
        ip_params |-> [netblock |-> server_addr,
                       broadcast |-> Broadcast(server_addr),
                       dev |-> interface]]

\* the dict start_hostapd appends to hostapd_instances
HostapdInstance(interface, conf_dict) ==
    [ssid |-> conf_dict.ssid,
     conf_file |-> HOSTAPD_CONF_FILE(interface),
     log_file |-> HOSTAPD_LOG_FILE(interface),
     interface |-> interface,
     pid_file |-> HOSTAPD_PID_FILE(interface),
     config_dict |-> conf_dict]

StationInstance(ssid, interface, dev_type) ==
    [ssid |-> ssid, interface |-> interface, dev_type |-> dev_type]

\* one entry of the log of remote commands and allocator calls
Cmd(c, i, x) == [cmd |-> c, iface |-> i, aux |-> x]

\* mutant: the address removal runs without ignore_status
FailableCmds_WithAddrDel == {"write_hostapd_conf", "hostapd_start", "cat_pid", "set_tx_power",
                 "addr_flush", "addr_add", "link_up", "write_dhcp_conf", "dnsmasq",
                 "ibss_join", "ibss_leave", "disconnect_station", "link_down",
                 "remove_interface", "get_file", "write_station_conf",
                 "wpa_supplicant_start", "wait_for_link", "peer_addr_add",
                 "rp_filter", "arp_ignore",
                 "addr_del"}

\* commands run without ignore_status: a non-zero exit raises
FailableCmds == {"write_hostapd_conf", "hostapd_start", "cat_pid", "set_tx_power",
                 "addr_flush", "addr_add", "link_up", "write_dhcp_conf", "dnsmasq",
                 "ibss_join", "ibss_leave", "disconnect_station", "link_down",
                 "remove_interface", "get_file", "write_station_conf",
                 "wpa_supplicant_start", "wait_for_link", "peer_addr_add",
                 "rp_filter", "arp_ignore"}

\* indices of plan at which a raise can happen; 0 stands for no failure
FailPoints(plan) == {0} \cup {k \in 1..Len(plan) : plan[k].cmd \in FailableCmds}

\* mutant: the commands after the failing one are issued all the same
Executed_RunsOn(plan, k) == plan

\* the commands issued when the command at index k raises (k = 0: none does)
Executed(plan, k) == IF k = 0 THEN plan ELSE SubSeq(plan, 1, k)

\* the commands that ran to their end when the command at index k raises
Completed(plan, k) == IF k = 0 THEN plan ELSE SubSeq(plan, 1, k - 1)

\* lines 545-548: the destination names 'debug/hostapd_router_%d_%s.log' of the
\* log collections among the commands, as pairs of counter and interface
LogNames(executed) ==
    {<<executed[j].aux, executed[j].iface>> :
        j \in {i \in DOMAIN executed : executed[i].cmd = "get_file"}}

\* ------------------------------------------------------------------- state
VARIABLES
    hostapd_instances,          \* self.hostapd_instances
    station_instances,          \* self.station_instances
    local_servers,              \* self.local_servers
    total_hostapd_instances,    \* self._total_hostapd_instances
    wlanifs_in_use,             \* interfaces handed out by get_wlanif and not released
    pc,                         \* position of the caller inside the operation
    call,                       \* the public operation in progress (or the last one)
    instances,                  \* deconfig_aps: the local list `instances`
    deconfig_servers,           \* deconfig_aps: the local list `local_servers` at line 533
    pid,                        \* start_hostapd: the local `pid`
    elapsed,                    \* start_hostapd: time.time() - start_time, in ticks
    poll_obs,                   \* what the remote host showed at the latest poll
    cmds,                       \* remote commands and allocator calls of the latest step
    result,                     \* how the operation ended: "ok" or the error raised
    start_failed,               \* interfaces whose instance was appended by a start that raised
    returned,                   \* the value the latest public call returned, None if none
    collected                   \* debug log names written under the current counter value

vars == <<hostapd_instances, station_instances, local_servers, total_hostapd_instances,
          wlanifs_in_use, pc, call, instances, deconfig_servers, pid, elapsed,
          poll_obs, cmds, result, start_failed, returned, collected>>

NoConfiguration == [frequency |-> 0, ssid_suffix |-> <<>>]
NoObs == [polled |-> FALSE, success |-> FALSE, failure |-> FALSE, alive |-> TRUE]

Call(op, configuration, multi_interface, instance, silent) ==
    [op |-> op, configuration |-> configuration, multi_interface |-> multi_interface,
     instance |-> instance, silent |-> silent,
     pre_empty |-> hostapd_instances = <<>> /\ station_instances = <<>>
                   /\ local_servers = <<>>,
     pre_active |-> hostapd_instances # <<>> \/ station_instances # <<>>,
     follows_configure |-> op = "deconfig_aps" /\ call.op = "hostap_configure"
                           /\ call.pre_empty /\ result = "ok"]

Init ==
    /\ hostapd_instances = <<>>
    /\ station_instances = <<>>
    /\ local_servers = <<>>
    /\ total_hostapd_instances = 0
    /\ wlanifs_in_use = {}
    /\ pc = "idle"
    /\ call = [op |-> "init", configuration |-> NoConfiguration, multi_interface |-> "None",
               instance |-> None, silent |-> FALSE, pre_empty |-> TRUE,
               pre_active |-> FALSE,
               follows_configure |-> FALSE]
    /\ instances = <<>>
    /\ deconfig_servers = <<>>
    /\ pid = 0
    /\ elapsed = 0
    /\ poll_obs = NoObs
    /\ cmds = <<>>
    /\ result = "ok"
    /\ start_failed = {}
    /\ returned = None
    /\ collected = {}

InterfacesOf(seq) == {seq[k].interface : k \in DOMAIN seq}

\* what every public call does on entry, in the model's bookkeeping
Enter(c) ==
    /\ pc = "idle"
    /\ call' = c
    /\ pid' = 0
    /\ elapsed' = 0
    /\ poll_obs' = NoObs
    /\ returned' = None
    /\ UNCHANGED collected

\* ------------------------------------------------------------ deconfig_aps
\* mutant: an indexed deconfig tears down every instance
TakenInstances_All(instance) == hostapd_instances

\* line 523 and line 530: the instances a deconfig tears down
TakenInstances(instance) ==
    IF instance # None THEN <<hostapd_instances[instance + 1]>> ELSE hostapd_instances

\* line 523 and line 531: the instances a deconfig leaves in the collection
LeftInstances(instance) ==
    IF instance # None THEN RemoveAt(hostapd_instances, instance + 1) ELSE <<>>

\* lines 524-525: positions of the local servers bound to the popped instance
ServerMatches(instance) ==
    {k \in DOMAIN local_servers :
        local_servers[k].interface = hostapd_instances[instance + 1].interface}

\* lines 521-528 and line 532: the local `local_servers`
TakenServers(instance) ==
    IF instance = None THEN local_servers
    ELSE IF ServerMatches(instance) = {} THEN <<>>
    ELSE <<local_servers[Min(ServerMatches(instance))]>>

\* mutant: the local servers stay in the collection
LeftServers_KeepsAll(instance) == local_servers

\* mutant: the server allocated last is the one removed
LeftServers_RemovesLast(instance) ==
    IF instance = None THEN <<>>
    ELSE IF ServerMatches(instance) = {} THEN local_servers
    ELSE RemoveAt(local_servers, Len(local_servers))

\* line 527 and line 533: the local servers left in the collection
LeftServers(instance) ==
    IF instance = None THEN <<>>
    ELSE IF ServerMatches(instance) = {} THEN local_servers
    ELSE RemoveAt(local_servers, Min(ServerMatches(instance)))

\* lines 520-533: take the targeted instances and their local servers out of
\* the collections
DeconfigPop(instance) ==
    IF hostapd_instances # <<>>
    THEN /\ instances' = TakenInstances(instance)
         /\ hostapd_instances' = LeftInstances(instance)
         /\ deconfig_servers' = TakenServers(instance)
         /\ local_servers' = LeftServers(instance)
    ELSE /\ instances' = <<>>
         /\ deconfig_servers' = <<>>
         /\ UNCHANGED <<hostapd_instances, local_servers>>

\* mutant: the daemon is killed before the interface is removed
InstanceTeardownPlan_KillFirst(inst, silent, has_log, total) ==
    <<Cmd("pkill_hostapd", inst.conf_file.iface, 0)>>
    \o (IF silent THEN <<Cmd("remove_interface", inst.interface, 0)>> ELSE <<>>)
    \o <<Cmd("is_installed", inst.log_file.iface, 0)>>
    \o (IF inst.interface \in has_log
        THEN <<Cmd("get_file", inst.interface, total)>> ELSE <<>>)
    \o <<Cmd("release_interface", inst.interface, 0)>>

\* lines 536-551 for one instance
InstanceTeardownPlan(inst, silent, has_log, total) ==
    (IF silent THEN <<Cmd("remove_interface", inst.interface, 0)>> ELSE <<>>)
    \o <<Cmd("pkill_hostapd", inst.conf_file.iface, 0),
         Cmd("is_installed", inst.log_file.iface, 0)>>
    \o (IF inst.interface \in has_log
        THEN <<Cmd("get_file", inst.interface, total)>> ELSE <<>>)
    \o <<Cmd("release_interface", inst.interface, 0)>>

RECURSIVE ApTeardownPlan(_, _, _, _)
ApTeardownPlan(insts, silent, has_log, total) ==
    IF insts = <<>> THEN <<>>
    ELSE InstanceTeardownPlan(Head(insts), silent, has_log, total)
         \o ApTeardownPlan(Tail(insts), silent, has_log, total)

\* mutant: the link is taken down before the kind-specific step
StationTeardownPlan_LinkDownFirst(station) ==
    <<Cmd("link_down", station.interface, 0),
      IF station.dev_type = "ibss" THEN Cmd("ibss_leave", station.interface, 0)
      ELSE IF station.dev_type = "managed"
           THEN Cmd("pkill_wpa_supplicant", station.interface, 0)
           ELSE Cmd("disconnect_station", station.interface, 0)>>

\* lines 557-566 for the station popped
StationTeardownPlan(station) ==
    <<IF station.dev_type = "ibss" THEN Cmd("ibss_leave", station.interface, 0)
      ELSE IF station.dev_type = "managed"
           THEN Cmd("pkill_wpa_supplicant", station.interface, 0)
           ELSE Cmd("disconnect_station", station.interface, 0),
      Cmd("link_down", station.interface, 0)>>

\* lines 568-572
RECURSIVE ServerReleasePlan(_)
ServerReleasePlan(servers) ==
    IF servers = <<>> THEN <<>>
    ELSE <<Cmd("pkill_dnsmasq", Head(servers).interface, 0),
           Cmd("addr_del", Head(servers).ip_params.dev,
               Head(servers).ip_params.netblock.addr[3])>>
         \o ServerReleasePlan(Tail(servers))

\* the list the loop at line 568 walks
ServersToRelease ==
    IF station_instances # <<>> THEN local_servers ELSE deconfig_servers

\* mutant: the local servers are released before the daemons are killed
DeconfigPlan_ServersFirst(silent, has_log) ==
    ServerReleasePlan(ServersToRelease)
    \o ApTeardownPlan(instances, silent, has_log, total_hostapd_instances)
    \o (IF station_instances # <<>>
        THEN StationTeardownPlan(station_instances[Len(station_instances)])
        ELSE <<>>)

DeconfigPlan(silent, has_log) ==
    ApTeardownPlan(instances, silent, has_log, total_hostapd_instances)
    \o (IF station_instances # <<>>
        THEN StationTeardownPlan(station_instances[Len(station_instances)])
        ELSE <<>>)
    \o ServerReleasePlan(ServersToRelease)

Released(executed) ==
    {executed[k].iface : k \in {j \in DOMAIN executed : executed[j].cmd = "release_interface"}}

\* where deconfig returns to
AfterDeconfig ==
    IF call.op = "hostap_configure" THEN "start_hostapd"
    ELSE IF call.op = "ibss_configure" THEN "ibss"
    ELSE "idle"

\* mutant: no early return
NothingConfigured_Never == FALSE

\* line 517
NothingConfigured == hostapd_instances = <<>> /\ station_instances = <<>>

\* public deconfig_aps(instance, silent), up to line 533; deconfig() is
\* deconfig_aps(None, False)
DeconfigAps(instance, silent) ==
    /\ Enter(Call("deconfig_aps", NoConfiguration, "None", instance, silent))
    /\ hostapd_instances # <<>> => total_hostapd_instances < MaxTeardowns
    /\ cmds' = <<>>
    /\ IF NothingConfigured
       THEN /\ pc' = "idle"
            /\ result' = "ok"
            /\ UNCHANGED <<hostapd_instances, local_servers, instances, deconfig_servers>>
       ELSE /\ pc' = "deconfig"
            /\ result' = "running"
            /\ DeconfigPop(instance)
    /\ UNCHANGED <<station_instances, total_hostapd_instances, wlanifs_in_use,
                   start_failed>>

\* lines 535-572: kill and release every instance taken, tear the station
\* down, release the local servers
DeconfigTeardown ==
    /\ pc = "deconfig"
    /\ \E has_log \in SUBSET InterfacesOf(instances) :
         LET silent == call.op = "deconfig_aps" /\ call.silent
             ap_plan == ApTeardownPlan(instances, silent, has_log,
                                       total_hostapd_instances)
             plan == DeconfigPlan(silent, has_log)
         IN \E k \in FailPoints(plan) :
              LET ap_done == k = 0 \/ k > Len(ap_plan)
                  station_reached == ap_done /\ station_instances # <<>>
              IN /\ cmds' = Executed(plan, k)
                 /\ wlanifs_in_use' = wlanifs_in_use \ Released(Executed(plan, k))
                 /\ total_hostapd_instances' =
                      IF instances # <<>> /\ ap_done
                      THEN total_hostapd_instances + 1 ELSE total_hostapd_instances
                 /\ station_instances' =
                      IF station_reached
                      THEN SubSeq(station_instances, 1, Len(station_instances) - 1)
                      ELSE station_instances
                 /\ local_servers' = IF station_reached THEN <<>> ELSE local_servers
                 /\ collected' =
                      IF instances # <<>> /\ ap_done THEN {}
                      ELSE collected \cup LogNames(Completed(plan, k))
                 /\ IF k # 0
                    THEN pc' = "idle" /\ result' = "CommandFailed"
                    ELSE /\ pc' = AfterDeconfig
                         /\ result' = IF AfterDeconfig = "idle" THEN "ok" ELSE "running"
    /\ instances' = <<>>
    /\ deconfig_servers' = <<>>
    /\ start_failed' = start_failed \ InterfacesOf(instances)
    /\ UNCHANGED <<hostapd_instances, call, pid, elapsed, poll_obs>>
    /\ UNCHANGED returned

\* ------------------------------------------------------ start_local_server
\* the interface allocator: get_wlanif hands out an interface that is not in use
FreeInterfaces == Interfaces \ wlanifs_in_use

\* start_dhcp_server: the first local server bound to the interface
FirstServerFor(servers, interface) ==
    servers[Min({k \in DOMAIN servers : servers[k].interface = interface})]

\* line 103 with line 394: self.dhcpd_conf % interface
dhcpd_conf(interface) == [pattern |-> "/tmp/dhcpd.%s.conf", iface |-> interface]

\* line 104: self.dhcpd_leases, a path without a placeholder
dhcpd_leases == [pattern |-> "/tmp/dhcpd.leases", iface |-> None]

\* start_dhcp_server, lines 393-403: the dnsmasq configuration written for
\* the local server `params`
DhcpConf(params) ==
    [conf_file |-> dhcpd_conf(params.interface),
     dhcp_range |-> <<GetAddrInBlock(params.netblock, DhcpLow),
                      GetAddrInBlock(params.netblock, DhcpHigh)>>,
     interface |-> params.interface,
     leasefile |-> dhcpd_leases]

\* lines 371-377 and start_dhcp_server, with `servers` the collection after
\* the append at line 369
StartLocalServerPlan(servers, interface) ==
    LET params == servers[Len(servers)]
        found == FirstServerFor(servers, interface)
    IN <<Cmd("addr_flush", interface, 0),
         Cmd("addr_add", params.ip_params.dev, params.ip_params.netblock.addr[3]),
         Cmd("link_up", interface, 0),
         Cmd("write_dhcp_conf", found.interface, found.netblock.addr[3]),
         Cmd("dnsmasq", interface, 0)>>

\* mutant: > for >=
Exhausted_OffByOne(servers) == Len(servers) > MaxLocalServers

\* line 352
Exhausted(servers) == Len(servers) >= MaxLocalServers

\* mutant: every local server gets the first subnet
WithNewServer_FirstSubnet(servers, interface) ==
    Append(servers, LocalServerParams(0, interface))

\* mutant: the server is registered twice
WithNewServer_Twice(servers, interface) ==
    Append(Append(servers, LocalServerParams(Len(servers), interface)),
           LocalServerParams(Len(servers) + 1, interface))

\* line 369
WithNewServer(servers, interface) ==
    Append(servers, LocalServerParams(Len(servers), interface))

\* -------------------------------------------------------- hostap_configure
\* mutant: a station alone does not trigger the deconfig
NeedsDeconfig_IgnoresStations(multi_interface) ==
    multi_interface = "None" /\ hostapd_instances # <<>>

\* line 273
NeedsDeconfig(multi_interface) ==
    multi_interface = "None" /\ (hostapd_instances # <<>> \/ station_instances # <<>>)

\* hostap_configure(configuration, multi_interface), lines 273-275 with the
\* entry of deconfig_aps
HostapConfigure(configuration, multi_interface) ==
    /\ Enter(Call("hostap_configure", configuration, multi_interface, None, FALSE))
    /\ cmds' = <<>>
    /\ result' = "running"
    /\ IF NeedsDeconfig(multi_interface)
       THEN /\ hostapd_instances # <<>> => total_hostapd_instances < MaxTeardowns
            /\ pc' = "deconfig"
            /\ DeconfigPop(None)
       ELSE /\ pc' = "start_hostapd"
            /\ UNCHANGED <<hostapd_instances, local_servers, instances, deconfig_servers>>
    /\ UNCHANGED <<station_instances, total_hostapd_instances, wlanifs_in_use,
                   start_failed>>

\* mutant: the stale log and pid files are deleted after the daemon start
StartHostapdPlan_RmAfterStart(interface) ==
    <<Cmd("write_hostapd_conf", interface, 0),
      Cmd("stop_wpasupplicant", None, 0),
      Cmd("hostapd_start", interface, 0),
      Cmd("rm_log_file", interface, 0),
      Cmd("rm_pid_file", interface, 0)>>

\* lines 163-175
StartHostapdPlan(interface) ==
    <<Cmd("write_hostapd_conf", interface, 0),
      Cmd("rm_log_file", interface, 0),
      Cmd("rm_pid_file", interface, 0),
      Cmd("stop_wpasupplicant", None, 0),
      Cmd("hostapd_start", interface, 0)>>

\* mutant: the instance is not recorded before the health check
WithNewInstance_NotRecorded(insts, interface, conf_dict) == insts

\* lines 176-183
WithNewInstance(insts, interface, conf_dict) ==
    Append(insts, HostapdInstance(interface, conf_dict))

\* start_hostapd, lines 152-183
StartHostapd ==
    /\ pc = "start_hostapd"
    /\ IF FreeInterfaces = {}
       THEN /\ cmds' = <<Cmd("get_wlanif", None, 0)>>
            /\ pc' = "idle"
            /\ result' = "None"
            /\ UNCHANGED <<hostapd_instances, wlanifs_in_use>>
       ELSE \E interface \in FreeInterfaces, salt \in Salts :
              LET hostapd_conf_dict ==
                      GenerateDict(call.configuration, interface,
                                   HOSTAPD_CONTROL_INTERFACE(interface),
                                   BuildSsid(salt, call.configuration.ssid_suffix))
                  plan == StartHostapdPlan(interface)
              IN \E k \in FailPoints(plan) :
                   /\ cmds' = <<Cmd("get_wlanif", interface, 0)>> \o Executed(plan, k)
                   /\ wlanifs_in_use' = wlanifs_in_use \cup {interface}
                   /\ IF k # 0
                      THEN /\ pc' = "idle"
                           /\ result' = "CommandFailed"
                           /\ UNCHANGED hostapd_instances
                      ELSE /\ pc' = "read_pid"
                           /\ result' = "running"
                           /\ hostapd_instances' =
                                WithNewInstance(hostapd_instances, interface,
                                                hostapd_conf_dict)
    /\ UNCHANGED <<station_instances, local_servers, total_hostapd_instances, call,
                   instances, deconfig_servers, pid, elapsed, poll_obs, start_failed>>
    /\ UNCHANGED <<returned, collected>>

\* mutant: [0] for [-1]
StartingInstance_First == hostapd_instances[1]

\* line 277: hostapd_instances[-1], the instance start_hostapd appended
StartingInstance == hostapd_instances[Len(hostapd_instances)]

\* start_hostapd, lines 186-188
ReadPid ==
    /\ pc = "read_pid"
    /\ cmds' = <<Cmd("cat_pid", StartingInstance.pid_file.iface, 0)>>
    /\ \/ /\ pc' = "idle"
          /\ result' = "CommandFailed"
          /\ start_failed' = start_failed \cup {StartingInstance.interface}
          /\ UNCHANGED <<pid, elapsed>>
       \/ /\ \E p \in Pids : pid' = p
          /\ elapsed' = 0
          /\ pc' = "polling"
          /\ result' = "running"
          /\ UNCHANGED start_failed
    /\ UNCHANGED <<hostapd_instances, station_instances, local_servers,
                   total_hostapd_instances, wlanifs_in_use, call, instances,
                   deconfig_servers, poll_obs>>
    /\ UNCHANGED <<returned, collected>>

PollObservations == [polled : {TRUE}, success : BOOLEAN, failure : BOOLEAN, alive : BOOLEAN]

\* lines 190-209: the commands one poll issues, given what the host shows
PollPlan(obs, log_file, p) ==
    <<Cmd("grep_success", log_file.iface, 0)>>
    \o (IF obs.success THEN <<>>
        ELSE <<Cmd("grep_failure", log_file.iface, 0)>>
             \o (IF obs.failure \/ p = 0 THEN <<>> ELSE <<Cmd("kill_0", None, p)>>))

\* mutant: the failure marker is tested before the success marker
PollOutcome_FailureFirst(obs, p) ==
    IF obs.failure THEN "BadConfiguration"
    ELSE IF obs.success THEN "success"
    ELSE IF p # 0 /\ ~obs.alive THEN "ProcessDied"
    ELSE "sleep"

\* mutant: the failure marker is not tested
PollOutcome_IgnoresFailure(obs, p) ==
    IF obs.success THEN "success"
    ELSE IF p # 0 /\ ~obs.alive THEN "ProcessDied"
    ELSE "sleep"

\* mutant: the pid is not probed
PollOutcome_IgnoresDeadPid(obs, p) ==
    IF obs.success THEN "success"
    ELSE IF obs.failure THEN "BadConfiguration"
    ELSE "sleep"

\* lines 193-209: the outcome of one poll
PollOutcome(obs, p) ==
    IF obs.success THEN "success"
    ELSE IF obs.failure THEN "BadConfiguration"
    ELSE IF p # 0 /\ ~obs.alive THEN "ProcessDied"
    ELSE "sleep"

\* line 211: the clock after time.sleep(STARTUP_POLLING_INTERVAL_SECONDS)
Slept(t) == t + StartupPollingIntervalTicks

\* hostap_configure, lines 277-279, after start_hostapd has returned
ConfigureFinishPlan(interface) ==
    <<Cmd("set_tx_power", interface, 0)>>
    \o (IF Exhausted(local_servers) THEN <<>>
        ELSE StartLocalServerPlan(WithNewServer(local_servers, interface), interface))

\* one pass of the loop at line 189: the timeout test, one poll, and on
\* success the rest of hostap_configure
Poll ==
    /\ pc = "polling"
    /\ IF elapsed < StartupTimeoutTicks
       THEN \E obs \in PollObservations :
              LET outcome == PollOutcome(obs, pid)
                  polled == PollPlan(obs, StartingInstance.log_file, pid)
                  interface == StartingInstance.interface
              IN /\ poll_obs' = obs
                 /\ IF outcome = "sleep"
                    THEN /\ elapsed' = Slept(elapsed)
                         /\ cmds' = polled
                         /\ UNCHANGED <<pc, pid, result, local_servers, start_failed>>
                    ELSE IF outcome = "success"
                    THEN \E k \in FailPoints(ConfigureFinishPlan(interface)) :
                           /\ cmds' = polled \o Executed(ConfigureFinishPlan(interface), k)
                           /\ local_servers' =
                                IF k = 1 \/ Exhausted(local_servers) THEN local_servers
                                ELSE WithNewServer(local_servers, interface)
                           /\ result' = IF k # 0 THEN "CommandFailed"
                                        ELSE IF Exhausted(local_servers)
                                             THEN "ResourceExhausted" ELSE "ok"
                           /\ pc' = "idle"
                           /\ pid' = 0
                           /\ elapsed' = 0
                           /\ UNCHANGED start_failed
                    ELSE /\ cmds' = polled
                         /\ result' = outcome
                         /\ start_failed' = start_failed \cup {interface}
                         /\ pc' = "idle"
                         /\ pid' = 0
                         /\ elapsed' = 0
                         /\ UNCHANGED local_servers
       ELSE /\ cmds' = <<>>
            /\ result' = "StartupTimeout"
            /\ start_failed' = start_failed \cup {StartingInstance.interface}
            /\ pc' = "idle"
            /\ pid' = 0
            /\ elapsed' = 0
            /\ UNCHANGED <<poll_obs, local_servers>>
    /\ UNCHANGED <<hostapd_instances, station_instances, total_hostapd_instances,
                   wlanifs_in_use, call, instances, deconfig_servers>>
    /\ UNCHANGED <<returned, collected>>

\* ---------------------------------------------------------- ibss_configure
\* mutant: a station alone does not trigger the deconfig
IbssNeedsDeconfig_IgnoresStations == hostapd_instances # <<>>

\* line 292
IbssNeedsDeconfig == station_instances # <<>> \/ hostapd_instances # <<>>

\* ibss_configure(config), lines 292-293 with the entry of deconfig_aps
IbssConfigure(config) ==
    /\ Enter(Call("ibss_configure", config, "None", None, FALSE))
    /\ cmds' = <<>>
    /\ result' = "running"
    /\ IF IbssNeedsDeconfig
       THEN /\ hostapd_instances # <<>> => total_hostapd_instances < MaxTeardowns
            /\ pc' = "deconfig"
            /\ DeconfigPop(None)
       ELSE /\ pc' = "ibss"
            /\ UNCHANGED <<hostapd_instances, local_servers, instances, deconfig_servers>>
    /\ UNCHANGED <<station_instances, total_hostapd_instances, wlanifs_in_use,
                   start_failed>>

\* lines 297-300
IbssJoinPlan(interface) ==
    <<Cmd("link_up", interface, 0), Cmd("ibss_join", interface, 0)>>
    \o (IF Exhausted(local_servers) THEN <<>>
        ELSE StartLocalServerPlan(WithNewServer(local_servers, interface), interface))

\* ibss_configure, lines 294-304
IbssJoin ==
    /\ pc = "ibss"
    /\ pc' = "idle"
    /\ IF FreeInterfaces = {}
       THEN /\ cmds' = <<Cmd("get_wlanif", None, 0)>>
            /\ result' = "None"
            /\ UNCHANGED <<station_instances, local_servers, wlanifs_in_use>>
       ELSE \E interface \in FreeInterfaces, salt \in Salts :
              LET ssid == BuildSsid(salt, call.configuration.ssid_suffix)
                  plan == IbssJoinPlan(interface)
              IN \E k \in FailPoints(plan) :
                   /\ cmds' = <<Cmd("get_wlanif", interface, 0)>> \o Executed(plan, k)
                   /\ wlanifs_in_use' = wlanifs_in_use \cup {interface}
                   /\ local_servers' =
                        IF k \in 1..2 \/ Exhausted(local_servers) THEN local_servers
                        ELSE WithNewServer(local_servers, interface)
                   /\ station_instances' =
                        IF k # 0 \/ Exhausted(local_servers) THEN station_instances
                        ELSE Append(station_instances,
                                    StationInstance(ssid, interface, "ibss"))
                   /\ result' = IF k # 0 THEN "CommandFailed"
                                ELSE IF Exhausted(local_servers)
                                     THEN "ResourceExhausted" ELSE "ok"
    /\ UNCHANGED <<hostapd_instances, total_hostapd_instances, call, instances,
                   deconfig_servers, pid, elapsed, poll_obs, start_failed>>
    /\ UNCHANGED <<returned, collected>>

\* ------------------------------------------------------ add_connected_peer
\* lines 760-789
ConnectedPeerPlan(interface, instance, hostap_conf) ==
    <<Cmd("write_station_conf", interface, 0),
      Cmd("link_up", interface, 0),
      Cmd("wpa_supplicant_start", interface, 0),
      Cmd("wait_for_link", interface, 0),
      Cmd("peer_addr_add", interface, LocalPeerIpAddress(instance)[3]),
      Cmd("rp_filter", interface, 0),
      Cmd("arp_ignore", interface, 0),
      Cmd("arp_ignore", hostap_conf.interface, 0)>>

\* mutant: add_connected_peer does not look for a station
StationConfigured_Never == FALSE

\* line 738: `if self.station_instances`
StationConfigured == station_instances # <<>>

\* add_connected_peer(instance)
AddConnectedPeer(instance) ==
    /\ Enter(Call("add_connected_peer", NoConfiguration, "None", instance, FALSE))
    /\ pc' = "idle"
    /\ IF hostapd_instances = <<>>
       THEN /\ result' = "NotConfigured"
            /\ cmds' = <<>>
            /\ UNCHANGED <<station_instances, wlanifs_in_use>>
       ELSE IF StationConfigured
       THEN /\ result' = "StationAlreadyConfigured"
            /\ cmds' = <<>>
            /\ UNCHANGED <<station_instances, wlanifs_in_use>>
       ELSE IF FreeInterfaces = {}
       THEN /\ result' = "None"
            /\ cmds' = <<Cmd("get_wlanif", None, 0)>>
            /\ UNCHANGED <<station_instances, wlanifs_in_use>>
       ELSE \E interface \in FreeInterfaces :
              LET ssid == hostapd_instances[instance + 1].ssid
                  hostap_conf == hostapd_instances[instance + 1].config_dict
                  plan == ConnectedPeerPlan(interface, instance, hostap_conf)
              IN \E k \in FailPoints(plan) :
                   /\ cmds' = <<Cmd("get_wlanif", interface, 0)>> \o Executed(plan, k)
                   /\ wlanifs_in_use' = wlanifs_in_use \cup {interface}
                   /\ station_instances' =
                        IF k # 0 THEN station_instances
                        ELSE Append(station_instances,
                                    StationInstance(ssid, interface, "managed"))
                   /\ result' = IF k # 0 THEN "CommandFailed" ELSE "ok"
    /\ UNCHANGED <<hostapd_instances, local_servers, total_hostapd_instances, instances,
                   deconfig_servers, start_failed>>

\* ----------------------------------------------------------------- get_ssid
Returned(value) == [raised |-> "no", value |-> value]
Raised(error) == [raised |-> error, value |-> <<>>]

\* mutant: no test for several instances
GetSsid_NoAmbiguityCheck(instance) ==
    LET index == IF instance = None THEN 0 ELSE instance
    IN IF hostapd_instances # <<>>
       THEN IF index + 1 \in DOMAIN hostapd_instances
            THEN Returned(hostapd_instances[index + 1].ssid)
            ELSE Raised("IndexError")
       ELSE IF station_instances # <<>> THEN Returned(station_instances[1].ssid)
       ELSE Raised("NotConfigured")

\* mutant: the SSID is built anew
GetSsid_Rebuilds(instance) ==
    Returned(BuildSsid(CHOOSE salt \in Salts : TRUE, <<>>))

\* get_ssid(instance), lines 589-603
GetSsid(instance) ==
    LET index == IF instance = None THEN 0 ELSE instance
    IN IF instance = None /\ Len(hostapd_instances) > 1
       THEN Raised("AmbiguousInstance")
       ELSE IF hostapd_instances # <<>>
       THEN IF index + 1 \in DOMAIN hostapd_instances
            THEN Returned(hostapd_instances[index + 1].ssid)
            ELSE Raised("IndexError")
       ELSE IF station_instances # <<>> THEN Returned(station_instances[1].ssid)
       ELSE Raised("NotConfigured")

\* ------------------------------------------------------ wifi_ip, get_wifi_ip
\* get_wifi_ip(ap_num), lines 433-445
GetWifiIp(ap_num) ==
    IF local_servers = <<>> THEN Raised("TestError: No IP address assigned")
    ELSE IF ap_num + 1 \in DOMAIN local_servers
    THEN Returned(local_servers[ap_num + 1].netblock.addr)
    ELSE Raised("IndexError")

\* mutant: no test of the number of local servers
WifiIp_AnyCount == GetWifiIp(0)

\* the wifi_ip property, lines 74-84
WifiIp ==
    IF Len(local_servers) # 1
    THEN Raised("TestError: Could not pick a WiFi IP to return.")
    ELSE GetWifiIp(0)

\* get_ssid(instance) as a call of its own
GetSsidCall(instance) ==
    /\ pc = "idle"
    /\ call' = Call("get_ssid", NoConfiguration, "None", instance, FALSE)
    /\ pid' = 0
    /\ elapsed' = 0
    /\ poll_obs' = NoObs
    /\ cmds' = <<>>
    /\ result' = IF GetSsid(instance).raised = "no" THEN "ok" ELSE GetSsid(instance).raised
    /\ returned' = IF GetSsid(instance).raised = "no" THEN GetSsid(instance).value ELSE None
    /\ UNCHANGED <<hostapd_instances, station_instances, local_servers,
                   total_hostapd_instances, wlanifs_in_use, pc, instances,
                   deconfig_servers, start_failed, collected>>

\* ---------------------------------------------------- send_management_frame
\* what `echo $!` can print for the process spawned
FramePids == {2001}

\* mutant: the interface is brought up first
SendManagementFramePlan_LinkUpFirst(interface, p) ==
    <<Cmd("link_up", interface, 0), Cmd("send_management_frame", interface, p)>>

\* lines 672-682: the one command, with the pid its stdout carries
SendManagementFramePlan(interface, p) ==
    <<Cmd("send_management_frame", interface, p)>>

\* send_management_frame(interface, ...), lines 672-684
SendManagementFrame(interface) ==
    /\ pc = "idle"
    /\ call' = Call("send_management_frame", NoConfiguration, "None", None, FALSE)
    /\ pid' = 0
    /\ elapsed' = 0
    /\ poll_obs' = NoObs
    /\ \E p \in FramePids :
         \/ /\ cmds' = SendManagementFramePlan(interface, p)
            /\ result' = "ok"
            /\ returned' = p
         \/ /\ cmds' = SendManagementFramePlan(interface, 0)
            /\ result' = "CommandFailed"
            /\ returned' = None
    /\ UNCHANGED <<hostapd_instances, station_instances, local_servers,
                   total_hostapd_instances, wlanifs_in_use, pc, instances,
                   deconfig_servers, start_failed, collected>>

\* ---------------------------------------------------------- specification
\* the indices a caller can name: every instance present, or 0 when there is none
InstanceArgs == 0..(IF hostapd_instances = <<>> THEN 0 ELSE Len(hostapd_instances) - 1)

Next ==
    \/ \E configuration \in Configurations, multi_interface \in MultiInterfaceArgs :
         HostapConfigure(configuration, multi_interface)
    \/ StartHostapd
    \/ ReadPid
    \/ Poll
    \/ \E config \in Configurations : IbssConfigure(config)
    \/ IbssJoin
    \/ \E instance \in InstanceArgs : AddConnectedPeer(instance)
    \/ \E instance \in {None} \cup InstanceArgs, silent \in BOOLEAN :
         DeconfigAps(instance, silent)
    \/ DeconfigTeardown
    \/ \E instance \in {None} \cup InstanceArgs : GetSsidCall(instance)
    \/ \E interface \in Interfaces : SendManagementFrame(interface)

Spec == Init /\ [][Next]_vars

\* the one caller runs the polling loop to its end
FairSpec == Spec /\ WF_vars(Poll)

\* ------------------------------------------------ the local server pool alone
\* start_local_server(interface) called on its own, lines 352-377 with
\* start_dhcp_server
StartLocalServer(interface) ==
    /\ Enter(Call("start_local_server", NoConfiguration, "None", None, FALSE))
    /\ pc' = "idle"
    /\ IF Exhausted(local_servers)
       THEN /\ result' = "ResourceExhausted"
            /\ cmds' = <<>>
            /\ UNCHANGED local_servers
       ELSE LET plan == StartLocalServerPlan(WithNewServer(local_servers, interface),
                                            interface)
            IN \E k \in FailPoints(plan) :
                 /\ local_servers' = WithNewServer(local_servers, interface)
                 /\ cmds' = Executed(plan, k)
                 /\ result' = IF k # 0 THEN "CommandFailed" ELSE "ok"
    /\ UNCHANGED <<hostapd_instances, station_instances, total_hostapd_instances,
                   wlanifs_in_use, instances, deconfig_servers, start_failed>>

\* the pool after n calls of start_local_server(1), n within PoolHeadroom of
\* the limit
PoolInit ==
    /\ hostapd_instances = <<>>
    /\ station_instances = <<>>
    /\ \E n \in (MaxLocalServers - PoolHeadroom)..MaxLocalServers :
         local_servers = [k \in 1..n |-> LocalServerParams(k - 1, 1)]
    /\ total_hostapd_instances = 0
    /\ wlanifs_in_use = {}
    /\ pc = "idle"
    /\ call = [op |-> "start_local_server", configuration |-> NoConfiguration,
               multi_interface |-> "None", instance |-> None, silent |-> FALSE,
               pre_empty |-> FALSE, pre_active |-> FALSE, follows_configure |-> FALSE]
    /\ instances = <<>>
    /\ deconfig_servers = <<>>
    /\ pid = 0
    /\ elapsed = 0
    /\ poll_obs = NoObs
    /\ cmds = StartLocalServerPlan(local_servers, 1)
    /\ result = "ok"
    /\ start_failed = {}
    /\ returned = None
    /\ collected = {}

PoolNext == \E interface \in Interfaces : StartLocalServer(interface)

PoolSpec == PoolInit /\ [][PoolNext]_vars

\* ------------------------------------------------------- _build_ssid alone
\* the ssid_prefix values __init__ can leave (lines 108-114): a test name and
\* the "_" appended to it
Prefixes == {[k \in 1..(n + 1) |-> IF k <= n THEN "p" ELSE "_"] : n \in 0..MaxPrefixChars}

\* the ssid_suffix values a caller can pass
Suffixes == {[k \in 1..n |-> "x"] : n \in 0..MaxSuffixLen}

\* one call of _build_ssid(suffix) on a router with the given ssid_prefix
SsidInit ==
    /\ hostapd_instances = <<>>
    /\ station_instances = <<>>
    /\ local_servers = <<>>
    /\ total_hostapd_instances = 0
    /\ wlanifs_in_use = {}
    /\ pc = "build_ssid"
    /\ \E prefix \in Prefixes, salt \in Salts, suffix \in Suffixes :
         call = [op |-> "_build_ssid", prefix |-> prefix, salt |-> salt,
                 suffix |-> suffix]
    /\ instances = <<>>
    /\ deconfig_servers = <<>>
    /\ pid = 0
    /\ elapsed = 0
    /\ poll_obs = NoObs
    /\ cmds = <<>>
    /\ result = "ok"
    /\ start_failed = {}
    /\ returned = None
    /\ collected = {}

\* lines 259-261
BuildSsidCall ==
    /\ pc = "build_ssid"
    /\ pc' = "idle"
    /\ returned' = BuildSsidWith(call.prefix, call.salt, call.suffix)
    /\ UNCHANGED <<hostapd_instances, station_instances, local_servers,
                   total_hostapd_instances, wlanifs_in_use, call, instances,
                   deconfig_servers, pid, elapsed, poll_obs, cmds, result,
                   start_failed, collected>>

SsidNext == BuildSsidCall

SsidSpec == SsidInit /\ [][SsidNext]_vars

\* ------------------------------------------------------------------ claims
Range(seq) == {seq[k] : k \in DOMAIN seq}

Idle(op) == pc = "idle" /\ call.op = op

\* start_hostapd returned normally: its last poll found the success marker
StartSucceeded == poll_obs.polled /\ poll_obs.success

StartErrors == {"BadConfiguration", "ProcessDied", "StartupTimeout"}

NoEntries ==
    hostapd_instances = <<>> /\ station_instances = <<>> /\ local_servers = <<>>

\* C1: a successful hostap_configure on a controller with no AP, station or
\* local-server entries, followed immediately by deconfig(), leaves the
\* controller with no AP instance, no station instance and no local server.
C1_ConfigureDeconfigRoundTrip ==
    (Idle("deconfig_aps") /\ call.follows_configure /\ call.instance = None)
        => NoEntries

C1_Witness ==
    /\ Idle("deconfig_aps") /\ call.follows_configure /\ call.instance = None
    /\ result = "ok"
    /\ \E k \in DOMAIN cmds : cmds[k].cmd = "pkill_hostapd"
    /\ \E k \in DOMAIN cmds : cmds[k].cmd = "pkill_dnsmasq"

\* the tx-power command that follows start_hostapd in hostap_configure raised
TxPowerFailed ==
    /\ result = "CommandFailed"
    /\ cmds # <<>>
    /\ cmds[Len(cmds)].cmd = "set_tx_power"

\* what C2 promises of the controller after configure(B)
OnlyTheNewAp ==
    /\ Len(hostapd_instances) = 1
    /\ station_instances = <<>>
    /\ Len(local_servers) = 1
    /\ local_servers[1].interface = hostapd_instances[1].interface

Pos(c, i) == {k \in DOMAIN cmds : cmds[k].cmd = c /\ cmds[k].iface = i}

\* positions of the release of the local server bound to interface i
ServerReleasePos(i) == Pos("pkill_dnsmasq", i) \cup Pos("addr_del", i)

CmdNames == [k \in DOMAIN cmds |-> cmds[k].cmd]

C4_RemovedServersReleased ==
    [][(pc = "deconfig" /\ result' # "CommandFailed")
         => \A s \in Range(deconfig_servers)
                     \cup (Range(local_servers) \ Range(local_servers')) :
              /\ \E k \in DOMAIN cmds' :
                    cmds'[k] = Cmd("pkill_dnsmasq", s.interface, 0)
              /\ \E k \in DOMAIN cmds' :
                    cmds'[k].cmd = "addr_del" /\ cmds'[k].iface = s.ip_params.dev]_vars

\* C5: each poll evaluates success marker, failure marker, pid liveness in
\* that order and the first that fires decides: success marker means the start
\* completes (whatever else the host shows), otherwise the failure marker
\* means BadConfiguration, otherwise a dead pid means ProcessDied.
C5_PollOrder ==
    (call.op = "hostap_configure" /\ poll_obs.polled /\ result # "StartupTimeout")
        => /\ cmds # <<>> /\ cmds[1].cmd = "grep_success"
           /\ poll_obs.success
                => /\ pc = "idle" /\ result \notin StartErrors
                   /\ StartingInstance.interface \notin start_failed
                   /\ \A k \in DOMAIN cmds : cmds[k].cmd \notin {"grep_failure", "kill_0"}
           /\ (~poll_obs.success /\ poll_obs.failure)
                => /\ pc = "idle" /\ result = "BadConfiguration"
                   /\ CmdNames = <<"grep_success", "grep_failure">>
           /\ (~poll_obs.success /\ ~poll_obs.failure)
                => /\ CmdNames = <<"grep_success", "grep_failure", "kill_0">>
                   /\ IF poll_obs.alive THEN pc = "polling"
                      ELSE pc = "idle" /\ result = "ProcessDied"

C5_Witness ==
    /\ Idle("hostap_configure") /\ result = "ok"
    /\ poll_obs.polled /\ poll_obs.success /\ poll_obs.failure /\ ~poll_obs.alive

\* C6 as stated: whenever the log holds the failure marker at a poll, start
\* raises BadConfiguration at that poll.
C6_Original ==
    (call.op = "hostap_configure" /\ poll_obs.polled /\ poll_obs.failure)
        => pc = "idle" /\ result = "BadConfiguration"

\* C6 as amended: whenever the log holds the failure marker and not the
\* success marker at a poll, start raises BadConfiguration at that poll,
\* without a further poll; the poll began strictly before the startup timeout.
C6_FailFast ==
    [][(pc = "polling" /\ poll_obs'.polled /\ poll_obs'.failure /\ ~poll_obs'.success)
         => /\ pc' = "idle"
            /\ result' = "BadConfiguration"
            /\ elapsed < StartupTimeoutTicks]_vars

C6_Witness ==
    /\ Idle("hostap_configure") /\ result = "BadConfiguration"
    /\ poll_obs.polled /\ poll_obs.failure /\ ~poll_obs.success

\* a poll that saw no success marker, no failure marker and a live pid
Quiet(obs) == ~obs.success /\ ~obs.failure /\ obs.alive

\* C7: the polling loop always terminates; start ends in exactly one of
\* success, BadConfiguration, ProcessDied, StartupTimeout, and in
\* StartupTimeout exactly when no poll of the window saw the success marker,
\* the failure marker or a dead pid.
C7_PollingTerminates ==
    /\ (pc = "polling") ~> (pc = "idle")
    /\ [](pc = "polling" => Quiet(poll_obs))
    /\ [][(pc = "polling" /\ pc' # "polling")
            => /\ pc' = "idle"
               /\ StartSucceeded' <=> result' \notin StartErrors
               /\ result' = "StartupTimeout" <=> Quiet(poll_obs')
               /\ result' = "StartupTimeout" <=> elapsed >= StartupTimeoutTicks]_vars

C7_Witness ==
    /\ Idle("hostap_configure") /\ result = "StartupTimeout"
    /\ poll_obs.polled /\ Quiet(poll_obs)

\* C8 as stated: after a start that fails with BadConfiguration, ProcessDied
\* or StartupTimeout the AP collection holds no instance of a failed attempt.
C8_Original ==
    (Idle("hostap_configure") /\ result \in StartErrors)
        => \A k \in DOMAIN hostapd_instances :
              hostapd_instances[k].interface \notin start_failed

\* C8 as amended: the instance is in the AP collection from before the
\* health check on, and a start that fails with BadConfiguration, ProcessDied
\* or StartupTimeout leaves it there, its interface still held; what such a
\* failed start never has is a local server bound to that interface.
C8_FailedStartKeepsInstance ==
    /\ pc \in {"read_pid", "polling"}
         => /\ hostapd_instances # <<>>
            /\ StartingInstance.interface \in wlanifs_in_use
    /\ (Idle("hostap_configure") /\ result \in StartErrors)
         => /\ hostapd_instances # <<>>
            /\ ~StartSucceeded
            /\ StartingInstance.interface \in start_failed
            /\ StartingInstance.interface \in wlanifs_in_use
            /\ \A k \in DOMAIN local_servers :
                  local_servers[k].interface # StartingInstance.interface

C8_Witness ==
    /\ Idle("hostap_configure") /\ result = "ProcessDied"
    /\ Len(hostapd_instances) = 2

\* the state of the slot of interface i
SlotState(i) ==
    IF i \in InterfacesOf(instances) THEN "TEARING_DOWN"
    ELSE IF i \in InterfacesOf(hostapd_instances)
    THEN IF pc \in {"read_pid", "polling"} /\ StartingInstance.interface = i
         THEN "STARTING"
         ELSE IF i \in start_failed THEN "FAILED" ELSE "ACTIVE"
    ELSE "UNCONFIGURED"

SlotEdges ==
    {<<"UNCONFIGURED", "STARTING">>, <<"STARTING", "ACTIVE">>,
     <<"ACTIVE", "TEARING_DOWN">>, <<"TEARING_DOWN", "UNCONFIGURED">>,
     <<"STARTING", "FAILED">>}

\* C9 as stated: a slot moves only along UNCONFIGURED -> STARTING -> ACTIVE ->
\* TEARING_DOWN -> UNCONFIGURED or STARTING -> FAILED, and a FAILED slot never
\* moves again.
C9_Original ==
    [][\A i \in Interfaces :
          SlotState(i)' # SlotState(i)
              => <<SlotState(i), SlotState(i)'>> \in SlotEdges]_vars

\* C9 as amended: a slot moves only along those edges or FAILED ->
\* TEARING_DOWN: a deconfig (also the one a later configure performs) tears a
\* failed instance down like an active one.
C9_SlotTransitions ==
    [][\A i \in Interfaces :
          SlotState(i)' # SlotState(i)
              => <<SlotState(i), SlotState(i)'>>
                     \in SlotEdges \cup {<<"FAILED", "TEARING_DOWN">>}]_vars

C9_Witness ==
    /\ pc = "deconfig"
    /\ \E i \in Interfaces : i \in start_failed /\ SlotState(i) = "TEARING_DOWN"

\* C10: no two AP instances of the collection are bound to the same interface.
C10_OneInstancePerInterface ==
    \A j, k \in DOMAIN hostapd_instances :
        j # k => hostapd_instances[j].interface # hostapd_instances[k].interface

C10_Witness ==
    /\ pc = "idle" /\ result = "ok"
    /\ Len(hostapd_instances) >= 2

\* C11: in every reachable state, whatever configure, ibss join, connected
\* peer and deconfig calls came before, the controller holds at most one
\* station instance
C11_AtMostOneStation == Len(station_instances) <= 1

\* an ibss join made while an instance was active has returned: the earlier
\* instance is gone and one station is held
C11_Witness ==
    /\ Idle("ibss_configure") /\ result = "ok" /\ call.pre_active
    /\ Len(station_instances) = 1

\* C12: a local server started while n local servers are active (0 <= n < 256)
\* has subnet 192.168.n.0/24, gateway 192.168.n.254, peer address
\* 192.168.n.253 and DHCP range 192.168.n.1 to 192.168.n.128; the first one
\* is 192.168.0.0/24 and a second one beside it is 192.168.1.0/24
C12_SubnetByActiveCount ==
    [][Len(local_servers') = Len(local_servers) + 1 =>
         LET n == Len(local_servers)
             server == local_servers'[n + 1]
         IN /\ n \in 0..255
            /\ SubSeq(local_servers', 1, n) = local_servers
            /\ Subnet(server.netblock) = <<192, 168, n, 0>>
            /\ server.netblock.prefix_len = 24
            /\ server.netblock.addr = <<192, 168, n, 254>>
            /\ LocalPeerIpAddress(n) = <<192, 168, n, 253>>
            /\ server.dhcp_range = <<<<192, 168, n, 1>>, <<192, 168, n, 128>>>>]_vars

\* a second AP was configured beside the first: two local servers, on the
\* subnets 192.168.0.0/24 and 192.168.1.0/24
C12_Witness ==
    /\ Idle("hostap_configure") /\ result = "ok" /\ call.multi_interface = "True"
    /\ Len(local_servers) = 2
    /\ Subnet(local_servers[1].netblock) = <<192, 168, 0, 0>>
    /\ Subnet(local_servers[2].netblock) = <<192, 168, 1, 0>>

\* C13: the number of active local servers never exceeds 256: a local server
\* asked for while exactly 256 are active raises the exhaustion error, issues
\* no remote command and leaves the same 256 servers active
C13_PoolExhaustion ==
    /\ [](Len(local_servers) <= 256)
    /\ [][(Len(local_servers) = 256 /\ call'.op = "start_local_server") =>
            /\ result' = "ResourceExhausted"
            /\ cmds' = <<>>
            /\ local_servers' = local_servers]_vars

\* the call made with 256 servers active has returned
C13_Witness ==
    /\ Idle("start_local_server")
    /\ result = "ResourceExhausted"
    /\ Len(local_servers) = 256
    /\ local_servers[256].interface # 1

\* C14: between operations, get_ssid without an index raises NotConfigured
\* when there is no AP and no station instance, returns the AP's ssid when
\* there is exactly one AP instance, and raises AmbiguousInstance when there
\* are several
C14_GetSsidWithoutIndex ==
    pc = "idle" =>
      /\ (hostapd_instances = <<>> /\ station_instances = <<>>)
            => GetSsid(None) = Raised("NotConfigured")
      /\ Len(hostapd_instances) = 1
            => GetSsid(None) = Returned(hostapd_instances[1].ssid)
      /\ Len(hostapd_instances) > 1
            => GetSsid(None) = Raised("AmbiguousInstance")

\* two AP instances are up and get_ssid without an index raises
C14_Witness ==
    /\ Idle("hostap_configure") /\ result = "ok"
    /\ Len(hostapd_instances) = 2
    /\ GetSsid(None).raised = "AmbiguousInstance"
    /\ GetSsid(1).raised = "no"

\* C15: deconfig called when the controller has no AP instance and no station
\* instance returns without error, issues no remote command, and leaves the
\* AP, station and local-server collections and the teardown counter unchanged
C15_DeconfigOfNothing ==
    [][(pc = "idle" /\ call'.op = "deconfig_aps"
        /\ hostapd_instances = <<>> /\ station_instances = <<>>) =>
         /\ pc' = "idle"
         /\ result' = "ok"
         /\ cmds' = <<>>
         /\ UNCHANGED <<hostapd_instances, station_instances, local_servers,
                        total_hostapd_instances, wlanifs_in_use>>]_vars

\* a deconfig of nothing has returned, after an operation that had issued
\* commands
C15_Witness ==
    /\ Idle("deconfig_aps") /\ ~call.pre_active /\ result = "ok" /\ cmds = <<>>
    /\ hostapd_instances = <<>> /\ station_instances = <<>>
    /\ wlanifs_in_use # {}

\* the AP instances a step tears down to the end: killed and their interface
\* released
TornDown(step_cmds) ==
    Cardinality({k \in DOMAIN step_cmds : step_cmds[k].cmd = "release_interface"})

\* C16: the session teardown counter never decreases and grows, in every
\* step, by the number of AP instances torn down in that step, so that it
\* always equals the number of AP instances torn down so far
C16_CounterCountsInstances ==
    [][/\ total_hostapd_instances' >= total_hostapd_instances
       /\ total_hostapd_instances' - total_hostapd_instances =
            (IF pc = "deconfig" THEN TornDown(cmds') ELSE 0)]_vars

\* C17: in a silent deconfig, for every AP instance torn down the bound
\* interface is removed from the host before the kill command for that
\* instance's daemon is issued; in a non-silent deconfig no interface removal
\* is issued
C17_SilentRemovesInterfaceFirst ==
    /\ \A k \in DOMAIN cmds :
         (cmds[k].cmd = "pkill_hostapd" /\ call.op = "deconfig_aps" /\ call.silent) =>
           \E j \in 1..(k - 1) :
             /\ cmds[j] = Cmd("remove_interface", cmds[k].iface, 0)
             /\ \A m \in (j + 1)..(k - 1) : cmds[m].cmd # "pkill_hostapd"
    /\ ~(call.op = "deconfig_aps" /\ call.silent) =>
         \A k \in DOMAIN cmds : cmds[k].cmd # "remove_interface"

\* a silent deconfig has torn down two AP instances
C17_Witness ==
    /\ Idle("deconfig_aps") /\ call.silent /\ result = "ok"
    /\ Cardinality({k \in DOMAIN cmds : cmds[k].cmd = "pkill_hostapd"}) = 2
    /\ Cardinality({k \in DOMAIN cmds : cmds[k].cmd = "remove_interface"}) = 2

\* the local servers a deconfig has taken out of the collection, or takes out
\* with the station
TargetedServers ==
    Range(deconfig_servers)
    \cup (IF station_instances # <<>> THEN Range(local_servers) ELSE {})

\* C18: a failing teardown-path command of deconfig (log collection, link
\* down, address removal, daemon kill) never raises to the caller and never
\* prevents the remaining steps: the deconfig still kills every targeted
\* daemon, releases every targeted interface and releases every targeted
\* local server
C18_TeardownNeverRaises ==
    [][(pc = "deconfig" /\ call.op = "deconfig_aps" /\ ~call.silent) =>
         /\ result' = "ok"
         /\ \A k \in DOMAIN instances :
              /\ Cmd("pkill_hostapd", instances[k].interface, 0) \in Range(cmds')
              /\ Cmd("release_interface", instances[k].interface, 0) \in Range(cmds')
         /\ \A server \in TargetedServers :
              /\ Cmd("pkill_dnsmasq", server.interface, 0) \in Range(cmds')
              /\ \E c \in Range(cmds') : c.cmd = "addr_del" /\ c.iface = server.interface]_vars

ReleaseCmds == {"pkill_dnsmasq", "addr_del"}

\* C19: releasing a local server is best-effort: a non-zero exit status of
\* the DHCP daemon stop or of the address removal raises nothing, and the
\* release of the remaining local servers of the same deconfig still
\* proceeds, so once the first release command is issued the deconfig issues
\* the release commands of every server it releases and does not fail
C19_ReleaseBestEffort ==
    [][pc = "deconfig" =>
         /\ \A has_log \in SUBSET InterfacesOf(instances) :
              \A k \in FailPoints(DeconfigPlan(call.silent, has_log)) \ {0} :
                DeconfigPlan(call.silent, has_log)[k].cmd \notin ReleaseCmds
         /\ (\E k \in DOMAIN cmds' : cmds'[k].cmd \in ReleaseCmds) =>
              LET first == Min({k \in DOMAIN cmds' : cmds'[k].cmd \in ReleaseCmds})
              IN /\ SubSeq(cmds', first, Len(cmds')) = ServerReleasePlan(ServersToRelease)
                 /\ result' # "CommandFailed"]_vars

\* a deconfig has released two local servers, one after the other
C19_Witness ==
    /\ Idle("deconfig_aps") /\ result = "ok"
    /\ Cardinality({k \in DOMAIN cmds : cmds[k].cmd = "pkill_dnsmasq"}) = 2
    /\ Cardinality({k \in DOMAIN cmds : cmds[k].cmd = "addr_del"}) = 2

KindCmds == {"ibss_leave", "pkill_wpa_supplicant", "disconnect_station"}

\* the step the claim gives each association kind
KindStep(dev_type) ==
    IF dev_type = "ibss" THEN "ibss_leave"
    ELSE IF dev_type = "managed" THEN "pkill_wpa_supplicant"
    ELSE "disconnect_station"

\* C20: station teardown dispatches on the association kind: an ibss station
\* gets exactly a leave command, a managed station exactly a kill of the
\* client daemon matched by its interface name, any other kind exactly a
\* disconnect command; the link-down command for the station's interface is
\* issued after that kind-specific step
C20_StationTeardownDispatch ==
    [][(pc = "deconfig" /\ station_instances # <<>>
        /\ station_instances' # station_instances) =>
         LET station == station_instances[Len(station_instances)]
             kind_pos == {k \in DOMAIN cmds' : cmds'[k].cmd \in KindCmds}
             down_pos == {k \in DOMAIN cmds' : cmds'[k].cmd = "link_down"}
         IN /\ station.dev_type \in {"ibss", "managed"}
            /\ Cardinality(kind_pos) = 1
            /\ \A k \in kind_pos :
                 /\ cmds'[k] = Cmd(KindStep(station.dev_type), station.interface, 0)
                 /\ \A d \in down_pos :
                      d = k + 1 /\ cmds'[d] = Cmd("link_down", station.interface, 0)
                 /\ down_pos = {} => (k = Len(cmds') /\ result' = "CommandFailed")
            /\ \A dev_type \in {"ibss", "managed", "other"} :
                 StationTeardownPlan(StationInstance(station.ssid, station.interface,
                                                     dev_type))
                   = <<Cmd(KindStep(dev_type), station.interface, 0),
                       Cmd("link_down", station.interface, 0)>>]_vars

\* a connected peer (a managed station) has been torn down, link-down included
C20_Witness ==
    /\ pc = "idle" /\ call.op = "deconfig_aps" /\ result = "ok"
    /\ station_instances = <<>>
    /\ \E k \in DOMAIN cmds :
         /\ cmds[k].cmd = "pkill_wpa_supplicant"
         /\ k + 1 \in DOMAIN cmds /\ cmds[k + 1].cmd = "link_down"

\* C21: several simultaneous AP instances are allowed iff configure is called
\* with multi_interface True: when multi_interface is False or unset and an
\* AP or a station is active, configure performs a full deconfig before it
\* starts the new AP
C21_DeconfigUnlessMultiTrue ==
    [][(pc = "idle" /\ call'.op = "hostap_configure"
        /\ call'.multi_interface # "True"
        /\ (hostapd_instances # <<>> \/ station_instances # <<>>)) =>
         /\ pc' = "deconfig"
         /\ hostapd_instances' = <<>>]_vars

\* C22: add_connected_peer fails with an error when no AP instance exists and
\* fails with an error when a station instance already exists; in both cases
\* it issues no remote command, acquires no interface, and leaves the AP,
\* station and local-server collections unchanged
C22_ConnectedPeerRefused ==
    [][(pc = "idle" /\ call'.op = "add_connected_peer"
        /\ (hostapd_instances = <<>> \/ station_instances # <<>>)) =>
         /\ pc' = "idle"
         /\ result' = (IF hostapd_instances = <<>> THEN "NotConfigured"
                       ELSE "StationAlreadyConfigured")
         /\ cmds' = <<>>
         /\ UNCHANGED <<hostapd_instances, station_instances, local_servers,
                        wlanifs_in_use, total_hostapd_instances>>]_vars

\* a connected peer was asked for while an AP and a station exist, and refused
C22_Witness ==
    /\ Idle("add_connected_peer") /\ result = "StationAlreadyConfigured"
    /\ cmds = <<>>
    /\ hostapd_instances # <<>> /\ Len(station_instances) = 1

\* C23: the peer address add_connected_peer assigns to the client interface
\* lies in the subnet of the local server bound to the target AP's interface
\* (192.168.k.253 where 192.168.k.0/24 is that server's netblock), whatever
\* configure and deconfig calls came before
C23_PeerAddressInServerSubnet ==
    (pc = "idle" /\ call.op = "add_connected_peer") =>
      \A k \in DOMAIN cmds :
        cmds[k].cmd = "peer_addr_add" =>
          LET target == hostapd_instances[call.instance + 1].interface
              bound == {j \in DOMAIN local_servers : local_servers[j].interface = target}
          IN bound # {} =>
               cmds[k].aux = Subnet(FirstServerFor(local_servers, target).netblock)[3]

\* C24: after a successful ibss_configure, whatever was configured before,
\* the controller holds no AP instance, exactly one station instance of kind
\* ibss, and exactly one local server, which is bound to the station's
\* interface
C24_IbssPostcondition ==
    (pc = "idle" /\ call.op = "ibss_configure" /\ result = "ok") =>
      /\ hostapd_instances = <<>>
      /\ Len(station_instances) = 1
      /\ station_instances[1].dev_type = "ibss"
      /\ Len(local_servers) = 1
      /\ local_servers[1].interface = station_instances[1].interface

\* C25: after every successful configure the local-server collection has
\* grown by exactly one entry relative to the state just before the AP start,
\* the new entry is bound to the interface of the AP instance that configure
\* started, and the local server is allocated only after the AP start has
\* succeeded
C25_OneServerAfterStart ==
    [][/\ (pc = "polling" /\ pc' = "idle" /\ result' = "ok") =>
            /\ poll_obs'.success
            /\ Len(local_servers') = Len(local_servers) + 1
            /\ SubSeq(local_servers', 1, Len(local_servers)) = local_servers
            /\ local_servers'[Len(local_servers')].interface
                 = hostapd_instances'[Len(hostapd_instances')].interface
       /\ (pc \in {"start_hostapd", "read_pid", "polling"}
           /\ local_servers' # local_servers) =>
            /\ pc = "polling"
            /\ poll_obs'.success]_vars

\* a configure beside an active AP has returned: the second local server is
\* bound to the second AP's interface
C25_Witness ==
    /\ Idle("hostap_configure") /\ result = "ok" /\ StartSucceeded
    /\ Len(hostapd_instances) = 2 /\ Len(local_servers) = 2
    /\ local_servers[2].interface = hostapd_instances[2].interface
    /\ local_servers[1].interface # local_servers[2].interface

\* C26: each local server's DHCP configuration names a lease file that is
\* specific to its interface, so no two concurrently active local servers
\* are configured with the same lease file path
C26_LeaseFilePerInterface ==
    /\ \A k \in DOMAIN local_servers :
         DhcpConf(local_servers[k]).leasefile.iface = local_servers[k].interface
    /\ \A j, k \in DOMAIN local_servers :
         local_servers[j].interface # local_servers[k].interface =>
           DhcpConf(local_servers[j]).leasefile # DhcpConf(local_servers[k]).leasefile

\* the remote commands of configure outside the teardown path that run
\* without ignore_status
ConfigureCmds ==
    {"write_hostapd_conf", "hostapd_start", "cat_pid", "set_tx_power",
     "addr_flush", "addr_add", "link_up", "write_dhcp_conf", "dnsmasq"}

\* C27: when a remote command of configure that is not a teardown-path
\* command fails (writing the config file, the daemon start command, reading
\* the pid, or an address, link or DHCP command of the local-server
\* allocation), the failure propagates as an error to the caller of configure
\* and the remaining steps of configure are not executed
C27_ConfigureFailurePropagates ==
    [][(pc \in {"start_hostapd", "read_pid", "polling"} /\ result' = "CommandFailed") =>
         LET failed == cmds'[Len(cmds')]
         IN /\ pc' = "idle"
            /\ failed.cmd \in ConfigureCmds
            /\ pc = "start_hostapd" =>
                 /\ failed.cmd # "hostapd_start" =>
                      Cmd("hostapd_start", failed.iface, 0) \notin Range(cmds')
                 /\ hostapd_instances' = hostapd_instances
            /\ pc = "read_pid" => (pid' = pid /\ poll_obs' = NoObs)
            /\ pc = "polling" =>
                 /\ (failed.cmd = "set_tx_power") = (local_servers' = local_servers)
                 /\ failed.cmd # "dnsmasq" =>
                      \A k \in DOMAIN cmds' : cmds'[k].cmd # "dnsmasq"
                 /\ failed.cmd \notin {"write_dhcp_conf", "dnsmasq"} =>
                      \A k \in DOMAIN cmds' : cmds'[k].cmd # "write_dhcp_conf"]_vars

\* configure has failed on a command of the local-server allocation, after
\* the AP start had succeeded
C27_Witness ==
    /\ Idle("hostap_configure") /\ result = "CommandFailed" /\ StartSucceeded
    /\ cmds[Len(cmds)].cmd = "addr_add"
    /\ hostapd_instances # <<>>

\* C28: the SSID built is prefix + 5-character salt + caller suffix truncated
\* to its rightmost 32 characters: its length never exceeds 32, it equals the
\* full concatenation when that has at most 32 characters, and otherwise
\* characters are dropped only from the left, so a caller suffix of at most
\* 32 characters is always preserved intact
C28_SsidRightmost32 ==
    (pc = "idle" /\ call.op = "_build_ssid") =>
      LET full == call.prefix \o call.salt \o call.suffix
          ssid == returned
      IN /\ Len(call.salt) = 5
         /\ Len(ssid) <= 32
         /\ Len(full) <= 32 => ssid = full
         /\ Len(full) > 32 =>
              /\ Len(ssid) = 32
              /\ \A k \in 1..32 : ssid[k] = full[Len(full) - 32 + k]
         /\ Len(call.suffix) <= 32 =>
              SubSeq(ssid, Len(ssid) - Len(call.suffix) + 1, Len(ssid)) = call.suffix

\* an SSID was built from a concatenation longer than 32 characters: part of
\* the prefix was dropped, the salt and the caller suffix were kept
C28_Witness ==
    /\ pc = "idle" /\ call.op = "_build_ssid"
    /\ Len(call.prefix \o call.salt \o call.suffix) > 32
    /\ Len(call.suffix) > 0
    /\ Len(returned) = 32
    /\ returned[1] = "p"
    /\ returned[32] = "x"

\* the commands that signal or kill a process, and the process each targets
KillTargets ==
    [pkill_hostapd |-> "hostapd", pkill_dnsmasq |-> "dnsmasq",
     pkill_wpa_supplicant |-> "wpa_supplicant", stop_wpasupplicant |-> "wpasupplicant",
     kill_0 |-> "pid"]

\* C29: send_management_frame is fire-and-forget: it issues one remote
\* command, returns the spawned pid, and leaves the AP, station and
\* local-server collections and the teardown counter unchanged; no configure
\* or deconfig issues a command that targets the spawned process
C29_FrameSenderFireAndForget ==
    /\ [][(pc = "idle" /\ call'.op = "send_management_frame") =>
            /\ pc' = "idle"
            /\ Len(cmds') = 1
            /\ cmds'[1].cmd = "send_management_frame"
            /\ result' = "ok" => (returned' = cmds'[1].aux /\ returned' \in FramePids)
            /\ UNCHANGED <<hostapd_instances, station_instances, local_servers,
                           total_hostapd_instances, wlanifs_in_use>>]_vars
    /\ [](\A k \in DOMAIN cmds :
            cmds[k].cmd \in DOMAIN KillTargets =>
              /\ KillTargets[cmds[k].cmd] # "send_management_frame"
              /\ KillTargets[cmds[k].cmd] = "pid" => cmds[k].aux \notin FramePids)

\* a frame sender was spawned while an AP was up, and its pid returned
C29_Witness ==
    /\ Idle("send_management_frame") /\ result = "ok"
    /\ returned \in FramePids
    /\ hostapd_instances # <<>> /\ local_servers # <<>>

\* C30: get_ssid is a pure query: it issues no command and changes no
\* controller state, and two get_ssid calls with nothing between them return
\* the same SSID, the one generated at configure time and written to the
\* instance's configuration
C30_GetSsidPure ==
    [][(pc = "idle" /\ call'.op = "get_ssid") =>
         /\ pc' = "idle"
         /\ cmds' = <<>>
         /\ UNCHANGED <<hostapd_instances, station_instances, local_servers,
                        total_hostapd_instances, wlanifs_in_use, instances,
                        deconfig_servers, start_failed>>
         /\ (call.op = "get_ssid" /\ call'.instance = call.instance) =>
              (result' = result /\ returned' = returned)
         /\ (result' = "ok" /\ hostapd_instances # <<>>) =>
              LET index == IF call'.instance = None THEN 0 ELSE call'.instance
              IN returned' = hostapd_instances[index + 1].config_dict.ssid]_vars

\* get_ssid has returned the SSID of the one AP a successful configure left
C30_Witness ==
    /\ Idle("get_ssid") /\ result = "ok"
    /\ Len(hostapd_instances) = 1 /\ local_servers # <<>>
    /\ returned = hostapd_instances[1].config_dict.ssid

\* C31: between operations, the wifi_ip accessor returns the address of the
\* single local server when exactly one local server is active and raises an
\* error when zero or more than one is active; being an expression over the
\* state, it changes none of it
C31_WifiIpSingleServer ==
    pc = "idle" =>
      /\ Len(local_servers) = 1 =>
           /\ WifiIp = Returned(local_servers[1].netblock.addr)
           /\ WifiIp.value[4] = 254
      /\ Len(local_servers) # 1 =>
           WifiIp = Raised("TestError: Could not pick a WiFi IP to return.")

\* two local servers are active and wifi_ip raises, while get_wifi_ip(1)
\* answers
C31_Witness ==
    /\ pc = "idle" /\ result = "ok"
    /\ Len(local_servers) = 2
    /\ WifiIp.raised # "no"
    /\ GetWifiIp(1) = Returned(<<192, 168, 1, 254>>)

\* two access points, each with its local server at its own position, and no
\* station
TwoAlignedAps ==
    /\ Len(hostapd_instances) = 2 /\ Len(local_servers) = 2
    /\ station_instances = <<>>
    /\ \A k \in 1..2 :
         /\ local_servers[k].interface = hostapd_instances[k].interface
         /\ local_servers[k].netblock.addr = <<192, 168, k - 1, 254>>

\* C32: local-server indices are positions in the list: when two access
\* points are active and the one at position 0 is deconfigured by index, the
\* remaining local server moves to position 0 and keeps its subnet
\* 192.168.1.0/24, so that get_wifi_ip(0) reports the address in
\* 192.168.1.0/24 from then on, through the teardown as well
C32_IndicesArePositional ==
    [][/\ (/\ pc = "idle" /\ pc' = "deconfig"
            /\ call'.op = "deconfig_aps" /\ call'.instance = 0
            /\ TwoAlignedAps)
           => /\ local_servers' = <<local_servers[2]>>
              /\ Subnet(local_servers'[1].netblock) = <<192, 168, 1, 0>>
              /\ GetWifiIp(1) = Returned(<<192, 168, 1, 254>>)
              /\ GetWifiIp(0)' = Returned(<<192, 168, 1, 254>>)
              /\ GetWifiIp(1)' = Raised("IndexError")
       /\ (/\ pc = "deconfig" /\ call.op = "deconfig_aps" /\ call.instance = 0
            /\ station_instances = <<>>)
           => local_servers' = local_servers]_vars

\* the access point at position 0 was deconfigured and the server of the other
\* one now answers at position 0
C32_Witness ==
    /\ Idle("deconfig_aps") /\ result = "ok" /\ call.instance = 0
    /\ Len(hostapd_instances) = 1 /\ station_instances = <<>>
    /\ Len(local_servers) = 1
    /\ local_servers[1].interface = hostapd_instances[1].interface
    /\ GetWifiIp(0) = Returned(<<192, 168, 1, 254>>)

\* C33: in every reachable state, whatever sequence of multi-interface
\* configure calls and indexed deconfig calls led to it, no two local servers
\* in the collection have the same subnet
C33_DistinctSubnets ==
    \A j, k \in DOMAIN local_servers :
        j # k => Subnet(local_servers[j].netblock) # Subnet(local_servers[k].netblock)

\* C34: between operations, whenever no station instance exists, the
\* collection of access points and the collection of local servers are
\* aligned: they have the same length and the local server at each position is
\* bound to the interface of the access point at that position; this after any
\* sequence of configure calls, failed starts included, and deconfig calls
C34_CollectionsAligned ==
    (pc = "idle" /\ station_instances = <<>>) =>
      /\ Len(local_servers) = Len(hostapd_instances)
      /\ \A k \in DOMAIN local_servers :
           local_servers[k].interface = hostapd_instances[k].interface

\* the commands that stop a daemon of an access point or of a local server
DaemonStops == {"pkill_hostapd", "pkill_dnsmasq"}

\* C35: a deconfig of one access point by index removes exactly the instance
\* at that index and the local server bound to its interface: every other
\* instance and every other local server stays in its collection, unchanged,
\* through the whole call, and the call stops no daemon on another interface;
\* this whether or not a station instance exists
C35_IndexedDeconfigIsExact ==
    [][/\ (/\ pc = "idle" /\ pc' = "deconfig"
            /\ call'.op = "deconfig_aps" /\ call'.instance # None
            /\ hostapd_instances # <<>>)
           => /\ instances' = <<hostapd_instances[call'.instance + 1]>>
              /\ hostapd_instances' = RemoveAt(hostapd_instances, call'.instance + 1)
              /\ \A k \in DOMAIN local_servers :
                   local_servers[k].interface # instances'[1].interface
                     => \E j \in DOMAIN local_servers' :
                          local_servers'[j] = local_servers[k]
              /\ Len(local_servers') >= Len(local_servers) - 1
       /\ (/\ pc = "deconfig"
            /\ call.op = "deconfig_aps" /\ call.instance # None
            /\ instances # <<>>)
           => /\ hostapd_instances' = hostapd_instances
              /\ local_servers' = local_servers
              /\ \A k \in DOMAIN cmds' :
                   cmds'[k].cmd \in DaemonStops
                     => cmds'[k].iface \in InterfacesOf(instances)]_vars

\* C36: after a deconfig of everything that completes without error and
\* leaves the collections of access points and stations empty, every
\* interface acquired by a configure, an IBSS join or a connected peer has
\* been released: the router holds no interface
C36_AllInterfacesReleased ==
    (/\ Idle("deconfig_aps") /\ call.instance = None /\ result = "ok"
     /\ hostapd_instances = <<>> /\ station_instances = <<>>)
        => wlanifs_in_use = {}

\* C37: between operations, also after an operation that raised, every local
\* server in the collection is bound to the interface of an access point or
\* of a station that is in the collections, so that a later deconfig removes
\* it
C37_ServersHaveOwners ==
    pc = "idle" =>
      \A k \in DOMAIN local_servers :
          local_servers[k].interface
            \in InterfacesOf(hostapd_instances) \cup InterfacesOf(station_instances)

\* C38: across a session no two log collections of deconfig use the same
\* destination name: every collection is named by the current value of the
\* teardown counter and the interface of the instance, no deconfig names two
\* collections alike, and none uses a name an earlier deconfig has written
\* (the names written under smaller counter values cannot come back, the
\* counter never decreasing)
C38_LogNamesUnique ==
    [][pc = "deconfig" =>
         /\ total_hostapd_instances' >= total_hostapd_instances
         /\ \A n \in LogNames(cmds') : n[1] = total_hostapd_instances
         /\ Cardinality(LogNames(cmds')) =
              Cardinality({k \in DOMAIN cmds' : cmds'[k].cmd = "get_file"})
         /\ LogNames(cmds') \cap collected = {}]_vars

\* the commands of the latest step that read the log of the starting daemon
LogReads == {k \in DOMAIN cmds : cmds[k].cmd \in {"grep_success", "grep_failure"}}

\* C39: in every start of an access point the remote steps come in this
\* order: the configuration file is written, the stale log file and pid file
\* are deleted, the daemon start command is issued, the pid is read, the
\* first health-check poll is made; so no poll reads the log before the
\* deletion of the stale log and the start command of that very start
C39_StartOrder ==
    /\ [](/\ \A i \in Interfaces : \A k \in Pos("hostapd_start", i) :
               \E a \in Pos("write_hostapd_conf", i), b \in Pos("rm_log_file", i),
                  c \in Pos("rm_pid_file", i) :
                   a < b /\ a < c /\ b < k /\ c < k
          /\ \A i \in Interfaces :
               \A k \in Pos("rm_log_file", i) \cup Pos("rm_pid_file", i) :
                   \E a \in Pos("write_hostapd_conf", i) : a < k
          /\ (pc = "read_pid") =>
               /\ Pos("hostapd_start", StartingInstance.interface) = {Len(cmds)}
               /\ LogReads = {}
          /\ (LogReads # {}) =>
               /\ cmds[1] = Cmd("grep_success", StartingInstance.log_file.iface, 0)
               /\ poll_obs.polled)
    /\ [][/\ (pc' = "read_pid") => (pc = "start_hostapd")
          /\ (pc' = "polling" /\ pc # "polling") =>
               /\ pc = "read_pid"
               /\ cmds' = <<Cmd("cat_pid", StartingInstance.pid_file.iface, 0)>>
               /\ hostapd_instances' = hostapd_instances
          /\ (cmds' # cmds /\ LogReads' # {}) =>
               /\ pc = "polling"
               /\ hostapd_instances' = hostapd_instances]_vars

\* the first poll of a start has been made, on the log of the instance the
\* start recorded
C39_Witness ==
    /\ call.op = "hostap_configure" /\ pc = "polling"
    /\ poll_obs.polled /\ elapsed = StartupPollingIntervalTicks
    /\ LogReads # {}
    /\ cmds[1].iface = StartingInstance.interface

====
